---- MODULE Spec2Model ----
(***************************************************************************)
(* Model of the research-agent front end:                                  *)
(*   - the proxy route  app/api/generate-report/route.ts  (POST and GET),  *)
(*   - the client page  (Home component: handleSubmit, polling, timers).   *)
(*                                                                         *)
(* JavaScript values are coded as strings so that values of different JS   *)
(* types can be compared: "undefined", "null", "true", "false", "n:<num>"  *)
(* for numbers and "s:<text>" for strings.  A JSON body is a record        *)
(* [kind, f]: kind "object" with the field map f (an absent field maps to  *)
(* Undefined), kind "null" for the JSON value null, and kind "invalid"     *)
(* for a body on which Response.json() rejects (empty or not JSON).        *)
(***************************************************************************)
EXTENDS Integers, Sequences, FiniteSets, TLC

----------------------------------------------------------------------------
(* JavaScript values *)

Undefined == "undefined"

JNull == "null"

JTrue == "true"

JFalse == "false"

\* JS truthiness (ToBoolean) on the coded values
Truthy(v) == v \notin {Undefined, JNull, JFalse, "n:0", "s:"}

\* a || b
Or(a, b) == IF Truthy(a) THEN a ELSE b

Keys == {"topic", "detail", "serverStatus", "currentLoad", "maxCapacity",
         "server_status", "is_warming_up", "current_load", "max_capacity",
         "job_id", "status", "progress", "report", "error"}

\* object literal / parsed object: every key not given is absent
Obj(g) == [k \in Keys |-> IF k \in DOMAIN g THEN g[k] ELSE Undefined]

EmptyFields == [k \in Keys |-> Undefined]

JsonObject(g) == [kind |-> "object", f |-> Obj(g)]

JsonNull == [kind |-> "null", f |-> EmptyFields]

NotJson == [kind |-> "invalid", f |-> EmptyFields]

\* data.key on a parsed body; the caller handles data === null (TypeError)
Get(data, k) == data.f[k]

\* data?.key
OptGet(data, k) == IF data.kind = "object" THEN data.f[k] ELSE Undefined

----------------------------------------------------------------------------
(* Messages of route.ts *)

MsgTopicRequired == "s:Topic is required"

MsgJobIdRequired == "s:Job ID is required"

MsgUnavailable == "s:Backend service unavailable"

MsgBusy == "s:Server is currently at maximum capacity. Please try again later."

MsgWarming == "s:Server is currently warming up. Please try again in 30 seconds."

MsgStartFailed == "s:Failed to start report generation"

MsgStatusFailed == "s:Failed to get job status"

\* error.message of the three exceptions the handlers can meet
ErrFetchFailed == "s:fetch failed"

ErrJsonSyntax == "s:Unexpected end of JSON input"

ErrTypeError == "s:Cannot read properties of null"

----------------------------------------------------------------------------
(* Inputs of the proxy: environment, requests and backend behaviour *)

ApiKeyValues == {Undefined, "s:", "s:secret"}

TopicValues == {Undefined, JNull, "s:", "s: ", "s:ai"}

PostBodies == {NotJson, JsonNull}
              \cup {JsonObject([topic |-> t]) : t \in TopicValues}

\* url.searchParams.get('jobId'): null when the parameter is missing
JobIdValues == {JNull, "s:", "s:j1"}

HealthBodies ==
    {NotJson, JsonNull}
    \cup {JsonObject([server_status |-> ss, is_warming_up |-> w,
                      current_load |-> cl, max_capacity |-> mc]) :
            ss \in {Undefined, "s:busy", "s:warming", "s:ok"},
            w \in {Undefined, JTrue, JFalse},
            cl \in {Undefined, JNull, "n:0", "n:5"},
            mc \in {Undefined, "n:5"}}

JobBodies ==
    {NotJson, JsonNull}
    \cup {JsonObject([detail |-> d]) : d \in {Undefined, "s:", "s:boom"}}
    \cup {JsonObject([job_id |-> "s:j1", status |-> st, progress |-> p,
                      report |-> r, error |-> e]) :
            st \in {"s:queued", "s:completed", "s:failed"},
            p \in {Undefined, "n:0.5"},
            r \in {Undefined, "s:report"},
            e \in {Undefined, "s:err"}}

StatusCodes == {200, 201, 404, 500, 503}

\* response.ok
Ok(status) == status >= 200 /\ status <= 299

\* what a fetch() resolves to, or its rejection (failed)
Outcomes(bodies) ==
    {[failed |-> TRUE, status |-> 0, body |-> NotJson]}
    \cup [failed : {FALSE}, status : StatusCodes, body : bodies]

NoOutcome == [failed |-> FALSE, status |-> 0, body |-> NotJson]

----------------------------------------------------------------------------
(* State *)

VARIABLES
    API_KEY,         \* process.env.API_KEY
    pc,              \* where the handler of the current request stands
    req,             \* the request being handled
    calls,           \* outbound fetch() calls of the current request, in order
    healthResponse,  \* what the /health fetch resolved to (POST)
    response,        \* what the backend job fetch resolved to (POST and GET)
    replies          \* responses returned for the current request, in order

proxyVars == <<API_KEY, pc, req, calls, healthResponse, response, replies>>

NoRequest == [method |-> "none", body |-> NotJson, jobId |-> JNull]

----------------------------------------------------------------------------
(* route.ts: helpers shared by POST and GET *)

\* NextResponse.json(data, {status}): data is serialised as JSON; a field
\* whose value is undefined is dropped, which is how an absent field is coded
NextResponseJson(data, status) ==
    [status |-> status,
     body |-> IF data.kind = "object"
              THEN [kind |-> "object", f |-> [k \in Keys |-> data.f[k]]]
              ELSE [kind |-> data.kind, f |-> EmptyFields]]

\* slip: the header is set unconditionally (undefined is sent as "undefined")
HeadersAlways(apiKey) ==
    [contentType |-> "s:application/json",
     xApiKey |-> IF apiKey = Undefined THEN "s:undefined" ELSE apiKey]

\* const headers = {'Content-Type': ...}; if (process.env.API_KEY) headers['X-API-Key'] = ...
Headers(apiKey) ==
    [contentType |-> "s:application/json",
     xApiKey |-> IF Truthy(apiKey) THEN apiKey ELSE Undefined]

\* fetch(url, {method, headers, body})
Fetch(url, id, method, hdrs, body) ==
    [url |-> url, id |-> id, method |-> method, headers |-> hdrs, body |-> body]

\* catch (error) { return NextResponse.json({detail: error.message}, {status: 500}) }
CatchResponse(message) == NextResponseJson(JsonObject([detail |-> message]), 500)

\* the handler has not returned yet
NoResponse == [status |-> 0, body |-> NotJson]

----------------------------------------------------------------------------
(* route.ts: POST *)

\* slip: only an absent topic is rejected, an empty one passes
TopicMissingUndefinedOnly(body) == OptGet(body, "topic") = Undefined

\* if (!body?.topic)
TopicMissing(body) == ~Truthy(OptGet(body, "topic"))

ValidationResponse == NextResponseJson(JsonObject([detail |-> MsgTopicRequired]), 400)

UnavailableResponse ==
    NextResponseJson(JsonObject([detail |-> MsgUnavailable,
                                 serverStatus |-> "s:unavailable"]), 503)

\* slip: the busy test compares with the wrong field
IsBusyWrongField(healthData) == Get(healthData, "status") = "s:busy"

\* if (healthData.server_status === 'busy')
IsBusy(healthData) == Get(healthData, "server_status") = "s:busy"

\* slip: the two echoed fields are exchanged
BusyResponseSwapped(healthData) ==
    NextResponseJson(JsonObject([detail |-> MsgBusy,
                                 serverStatus |-> "s:busy",
                                 currentLoad |-> Get(healthData, "max_capacity"),
                                 maxCapacity |-> Get(healthData, "current_load")]), 429)


BusyResponse(healthData) ==
    NextResponseJson(JsonObject([detail |-> MsgBusy,
                                 serverStatus |-> "s:busy",
                                 currentLoad |-> Get(healthData, "current_load"),
                                 maxCapacity |-> Get(healthData, "max_capacity")]), 429)

\* slip: warming is read from server_status instead of is_warming_up
IsWarmingUpFromStatus(healthData) == Get(healthData, "server_status") = "s:warming"

\* if (healthData.is_warming_up)
IsWarmingUp(healthData) == Truthy(Get(healthData, "is_warming_up"))

WarmingResponse ==
    NextResponseJson(JsonObject([detail |-> MsgWarming,
                                 serverStatus |-> "s:warming"]), 503)

\* slip: a rejected health call is ignored and the job is forwarded
HealthGateIgnoresFailure(h) ==
    IF h.failed THEN NoResponse
    ELSE IF ~Ok(h.status) THEN UnavailableResponse
    ELSE IF h.body.kind = "invalid" THEN CatchResponse(ErrJsonSyntax)
    ELSE IF h.body.kind = "null" THEN CatchResponse(ErrTypeError)
    ELSE IF IsBusy(h.body) THEN BusyResponse(h.body)
    ELSE IF IsWarmingUp(h.body) THEN WarmingResponse
    ELSE NoResponse

\* lines 25-63: the outcome of the health call decides; NoResponse = go on
HealthGate(h) ==
    IF h.failed THEN CatchResponse(ErrFetchFailed)
    ELSE IF ~Ok(h.status) THEN UnavailableResponse
    ELSE IF h.body.kind = "invalid" THEN CatchResponse(ErrJsonSyntax)
    ELSE IF h.body.kind = "null" THEN CatchResponse(ErrTypeError)
    ELSE IF IsBusy(h.body) THEN BusyResponse(h.body)
    ELSE IF IsWarmingUp(h.body) THEN WarmingResponse
    ELSE NoResponse

\* slip: on success only the job id is forwarded
BackendResultJobIdOnly(r, fallback) ==
    IF r.failed THEN CatchResponse(ErrFetchFailed)
    ELSE IF r.body.kind = "invalid" THEN CatchResponse(ErrJsonSyntax)
    ELSE IF ~Ok(r.status)
         THEN IF r.body.kind = "null" THEN CatchResponse(ErrTypeError)
              ELSE NextResponseJson(
                       JsonObject([detail |-> Or(Get(r.body, "detail"), fallback)]),
                       r.status)
    ELSE NextResponseJson(JsonObject([job_id |-> OptGet(r.body, "job_id")]), 200)

\* lines 72-82 (fallback = 'Failed to start report generation') and
\* lines 118-127 (fallback = 'Failed to get job status')
BackendResult(r, fallback) ==
    IF r.failed THEN CatchResponse(ErrFetchFailed)
    ELSE IF r.body.kind = "invalid" THEN CatchResponse(ErrJsonSyntax)
    ELSE IF ~Ok(r.status)
         THEN IF r.body.kind = "null" THEN CatchResponse(ErrTypeError)
              ELSE NextResponseJson(
                       JsonObject([detail |-> Or(Get(r.body, "detail"), fallback)]),
                       r.status)
    ELSE NextResponseJson(r.body, 200)

\* POST, lines 5-27: parse, validate, build the headers, call /health
POSTReceive(body) ==
    /\ pc = "idle"
    /\ req' = [method |-> "POST", body |-> body, jobId |-> JNull]
    /\ IF body.kind = "invalid"
       THEN /\ replies' = Append(replies, CatchResponse(ErrJsonSyntax))
            /\ pc' = "done"
            /\ UNCHANGED calls
       ELSE IF TopicMissing(body)
       THEN /\ replies' = Append(replies, ValidationResponse)
            /\ pc' = "done"
            /\ UNCHANGED calls
       ELSE /\ calls' = Append(calls, Fetch("/health", Undefined, "GET",
                                            Headers(API_KEY), NotJson))
            /\ pc' = "awaitHealth"
            /\ UNCHANGED replies
    /\ UNCHANGED <<API_KEY, healthResponse, response>>

\* POST, lines 25-70: the health call settles; gate, then call /generate-report
POSTHealth(h) ==
    /\ pc = "awaitHealth"
    /\ healthResponse' = h
    /\ IF HealthGate(h) # NoResponse
       THEN /\ replies' = Append(replies, HealthGate(h))
            /\ pc' = "done"
            /\ UNCHANGED calls
       ELSE /\ calls' = Append(calls, Fetch("/generate-report", Undefined, "POST",
                                            Headers(API_KEY), req.body))
            /\ pc' = "awaitGenerate"
            /\ UNCHANGED replies
    /\ UNCHANGED <<API_KEY, req, response>>

\* POST, lines 66-90: the job-creation call settles
POSTGenerate(r) ==
    /\ pc = "awaitGenerate"
    /\ response' = r
    /\ replies' = Append(replies, BackendResult(r, MsgStartFailed))
    /\ pc' = "done"
    /\ UNCHANGED <<API_KEY, req, calls, healthResponse>>

----------------------------------------------------------------------------
(* route.ts: GET *)

\* slip: only a missing parameter is rejected, an empty one passes
JobIdMissingNullOnly(jobId) == jobId = JNull

\* if (!jobId)
JobIdMissing(jobId) == ~Truthy(jobId)

JobIdResponse == NextResponseJson(JsonObject([detail |-> MsgJobIdRequired]), 400)

\* GET, lines 95-116: read jobId, validate, build the headers, call /job-status
GETReceive(jobId) ==
    /\ pc = "idle"
    /\ req' = [method |-> "GET", body |-> NotJson, jobId |-> jobId]
    /\ IF JobIdMissing(jobId)
       THEN /\ replies' = Append(replies, JobIdResponse)
            /\ pc' = "done"
            /\ UNCHANGED calls
       ELSE /\ calls' = Append(calls, Fetch("/job-status", jobId, "GET",
                                            Headers(API_KEY), NotJson))
            /\ pc' = "awaitJobStatus"
            /\ UNCHANGED replies
    /\ UNCHANGED <<API_KEY, healthResponse, response>>

\* GET, lines 114-135: the job-status call settles
GETJobStatus(r) ==
    /\ pc = "awaitJobStatus"
    /\ response' = r
    /\ replies' = Append(replies, BackendResult(r, MsgStatusFailed))
    /\ pc' = "done"
    /\ UNCHANGED <<API_KEY, req, calls, healthResponse>>

\* the handler has returned; the stateless route takes the next request
NextRequest ==
    /\ pc = "done"
    /\ pc' = "idle"
    /\ req' = NoRequest
    /\ calls' = <<>>
    /\ healthResponse' = NoOutcome
    /\ response' = NoOutcome
    /\ replies' = <<>>
    /\ UNCHANGED API_KEY

ProxyInit ==
    /\ API_KEY \in ApiKeyValues
    /\ pc = "idle"
    /\ req = NoRequest
    /\ calls = <<>>
    /\ healthResponse = NoOutcome
    /\ response = NoOutcome
    /\ replies = <<>>

ProxyNext ==
    \/ \E body \in PostBodies : POSTReceive(body)
    \/ \E h \in Outcomes(HealthBodies) : POSTHealth(h)
    \/ \E r \in Outcomes(JobBodies) : POSTGenerate(r)
    \/ \E jobId \in JobIdValues : GETReceive(jobId)
    \/ \E r \in Outcomes(JobBodies) : GETJobStatus(r)
    \/ NextRequest

----------------------------------------------------------------------------
(* Client page (Home component) *)

\* characters a topic is typed from: two kinds of white space and a letter
Whitespace == {" ", "\t"}

Chars == Whitespace \cup {"a"}

MaxTopicLen == 1

MaxTime == 13

MaxInFlight == 2

MaxFailures == 2

\* how far the progress grid reaches below 0 and above 100 hundredths
GridMargin == 5

\* every 12 seconds the ticker moves to the next thought stage
StageEvery == 12

\* thoughtStages.length
NumStages == 7

Topics == UNION {[1..n -> Chars] : n \in 0..MaxTopicLen}

RECURSIVE TrimStart(_)
TrimStart(t) ==
    IF t # <<>> /\ Head(t) \in Whitespace THEN TrimStart(Tail(t)) ELSE t

RECURSIVE TrimEnd(_)
TrimEnd(t) ==
    IF t # <<>> /\ t[Len(t)] \in Whitespace
    THEN TrimEnd(SubSeq(t, 1, Len(t) - 1))
    ELSE t

\* slip: only the leading white space is removed and only blanks count
TrimBlanksOnly(t) ==
    IF t # <<>> /\ Head(t) = " " /\ Len(t) = 1 THEN <<>> ELSE t

\* String.prototype.trim
Trim(t) == TrimEnd(TrimStart(t))

\* an error message shown to the user; load and max are the values
\* interpolated into the busy template
Msg(text) == [text |-> text, load |-> Undefined, max |-> Undefined]

NoMsg == Msg(JNull)

MsgClientBusy == "s:Server is at maximum capacity (${currentLoad}/${maxCapacity}). Please try again later."

MsgClientWarming == "s:Server is warming up. Please try again in 30 seconds."

MsgClientUnavailable == "s:Research service is currently unavailable. Please try again later."

MsgPollFailed == "s:Failed to check job status"

MsgJobFailed == "s:Failed to generate report"

BusyMsg(load, max) == [text |-> MsgClientBusy, load |-> load, max |-> max]

VARIABLES
    mounted,          \* the component is mounted
    topic,            \* useState("")
    isLoading,        \* useState(false)
    error,            \* useState(null)
    report,           \* useState(null)
    currentStage,     \* useState(0)
    processingTime,   \* useState(0)
    jobId,            \* useState(null)
    serverStatus,     \* useState(null)
    status,           \* useState("Checking...")
    healthInFlight,   \* the mount-time /health fetch has not settled
    submitsInFlight,  \* POST /api/generate-report requests awaiting a response
    pollTimers,       \* live setInterval timers of startPollingJobStatus
    pollJobId,        \* the job id the polling closure was started with
    statusInFlight,   \* GET /api/generate-report requests awaiting a response
    lastSubmit,       \* what the last handleSubmit did: "ignored" or "sent" (history)
    pollFailures      \* status fetches that failed in a row, up to now (history)

clientState == <<isLoading, error, report, jobId, serverStatus, currentStage,
                 processingTime>>

clientVars == <<mounted, topic, isLoading, error, report, currentStage,
                processingTime, jobId, serverStatus, status, healthInFlight,
                submitsInFlight, pollTimers, pollJobId, statusInFlight,
                lastSubmit, pollFailures>>

vars == <<proxyVars, clientVars>>

\* slip: the form stays on the page while a job is running
FormRenderedWhileLoading == mounted /\ report = JNull /\ error = NoMsg

\* the form (PlaceholdersAndVanishInput) is rendered
FormRendered == mounted /\ ~isLoading /\ report = JNull /\ error = NoMsg

\* bodies the client can receive from the proxy route
SubmitErrorBodies ==
    {NotJson, JsonNull}
    \cup {JsonObject([detail |-> d, serverStatus |-> ss,
                      currentLoad |-> cl, maxCapacity |-> "n:5"]) :
            d \in {Undefined, "s:boom"},
            ss \in {Undefined, "s:busy", "s:warming", "s:unavailable", "s:other"},
            cl \in {Undefined, "n:5"}}

SubmitOkBodies ==
    {NotJson, JsonNull}
    \cup {JsonObject([job_id |-> j, status |-> st, report |-> r]) :
            j \in {Undefined, "s:j1"},
            st \in {Undefined, "s:queued", "s:completed"},
            r \in {Undefined, "s:report"}}

SubmitOutcomes ==
    {[failed |-> TRUE, status |-> 0, body |-> NotJson]}
    \cup [failed : {FALSE}, status : {200}, body : SubmitOkBodies]
    \cup [failed : {FALSE}, status : {429}, body : SubmitErrorBodies]

\* progress values of a status payload, in hundredths
ProgressValues == {0, 50, 150}

StatusOkBodies ==
    {NotJson, JsonNull}
    \cup {JsonObject([status |-> st, progress |-> p, report |-> r]) :
            st \in {"s:queued", "s:running"},
            p \in {Undefined, "number"},
            r \in {Undefined, "s:report"}}
    \cup {JsonObject([status |-> "s:completed", progress |-> p, report |-> r]) :
            p \in {Undefined, "number"},
            r \in {Undefined, "s:report", "s:report2"}}
    \cup {JsonObject([status |-> "s:failed", progress |-> p, error |-> e]) :
            p \in {Undefined, "number"},
            e \in {Undefined, "s:", "s:err"}}

StatusErrorBodies ==
    {NotJson, JsonNull}
    \cup {JsonObject([detail |-> d]) : d \in {Undefined, "s:gone"}}

\* the numeric values body.progress can have, in hundredths: any of
\* ProgressValues while the job is queued or running, 100 once it has ended
ProgressOf(b) ==
    IF OptGet(b, "progress") = Undefined THEN {0}
    ELSE IF OptGet(b, "status") \in {"s:completed", "s:failed"} THEN {100}
    ELSE ProgressValues

\* a status outcome also carries the numeric value of body.progress
StatusOutcomes ==
    {[failed |-> TRUE, status |-> 0, body |-> NotJson, progress |-> 0]}
    \cup UNION {[failed : {FALSE}, status : {200}, body : {b},
                 progress : ProgressOf(b)] : b \in StatusOkBodies}
    \cup [failed : {FALSE}, status : {404}, body : StatusErrorBodies,
          progress : {0}]

\* every progress of the grid, carried by the status payload of a running job
ProgressGrid == (0 - GridMargin)..(100 + GridMargin)

GridOutcomes ==
    [failed : {FALSE}, status : {200},
     body : {JsonObject([status |-> "s:running", progress |-> "number"])},
     progress : ProgressGrid]

ServerStatusOutcomes ==
    {[failed |-> TRUE, status |-> 0, body |-> NotJson]}
    \cup [failed : {FALSE}, status : {200},
          body : {NotJson, JsonNull, JsonObject([status |-> "s:ok"]),
                  JsonObject([server_status |-> "s:ok"])}]

\* slip: the first comparison is strict
StageOfStrict(hasProgress, p) ==
    IF ~hasProgress THEN 6
    ELSE IF p < 20 THEN 0
    ELSE IF p <= 30 THEN 1
    ELSE IF p <= 50 THEN 2
    ELSE IF p <= 70 THEN 3
    ELSE IF p <= 90 THEN 4
    ELSE IF p < 100 THEN 5
    ELSE 6

\* lines 286-293: the stage shown for a progress p (hundredths); a payload
\* without progress fails every comparison and ends in the last branch
StageOf(hasProgress, p) ==
    IF ~hasProgress THEN 6
    ELSE IF p <= 20 THEN 0
    ELSE IF p <= 30 THEN 1
    ELSE IF p <= 50 THEN 2
    ELSE IF p <= 70 THEN 3
    ELSE IF p <= 90 THEN 4
    ELSE IF p < 100 THEN 5
    ELSE 6

\* the two effects that follow a render: with isLoading false the ticker
\* effect resets stage and time (lines 163-166) and the cleanup effect
\* drops the job id (lines 321-325)
StageAfterEffects(loading, stage) == IF loading THEN stage ELSE 0

\* slip: the else branch of the ticker effect is missing
TimeKept(loading, time) == time

TimeAfterEffects(loading, time) == IF loading THEN time ELSE 0

JobIdAfterEffects(loading, id) == IF ~loading /\ Truthy(id) THEN JNull ELSE id

\* onChange={(e) => setTopic(e.target.value)}
SetTopic(t) ==
    /\ FormRendered
    /\ topic' = t
    /\ UNCHANGED <<pollFailures, lastSubmit, mounted, isLoading, error, report, currentStage,
                   processingTime, jobId, serverStatus, status, healthInFlight,
                   submitsInFlight, pollTimers, pollJobId, statusInFlight>>

\* handleSubmit, lines 193-218: up to the fetch of the POST request
HandleSubmit ==
    /\ FormRendered
    /\ lastSubmit' = IF Trim(topic) = <<>> THEN "ignored" ELSE "sent"
    /\ IF Trim(topic) = <<>>
       THEN UNCHANGED <<isLoading, error, report, currentStage, processingTime,
                        jobId, serverStatus, submitsInFlight>>
       ELSE /\ isLoading' = TRUE
            /\ error' = NoMsg
            /\ report' = JNull
            /\ processingTime' = 0
            /\ currentStage' = 0
            /\ jobId' = JNull
            /\ serverStatus' = JNull
            /\ submitsInFlight' = submitsInFlight + 1
    /\ UNCHANGED <<pollFailures, mounted, topic, status, healthInFlight, pollTimers,
                   pollJobId, statusInFlight>>

\* the message of the Error thrown for a non-success submit response, lines 220-243
SubmitErrorMessage(body) ==
    IF body.kind = "invalid" THEN Msg(ErrJsonSyntax)
    ELSE IF body.kind = "null" THEN Msg(ErrTypeError)
    ELSE IF Get(body, "serverStatus") = "s:busy"
         THEN BusyMsg(Get(body, "currentLoad"), Get(body, "maxCapacity"))
    ELSE IF Get(body, "serverStatus") = "s:warming" THEN Msg(MsgClientWarming)
    ELSE IF Get(body, "serverStatus") = "s:unavailable" THEN Msg(MsgClientUnavailable)
    ELSE Msg(Or(Get(body, "detail"), MsgStartFailed))

\* the try block of handleSubmit throws: the fetch rejects, the response is
\* not ok (lines 220-243), or response.json() / jobData.job_id throws
SubmitThrown(o) == o.failed \/ o.body.kind # "object" \/ ~Ok(o.status)

\* line 262: the message of what was thrown
SubmitError(o) ==
    IF o.failed THEN Msg(ErrFetchFailed)
    ELSE IF ~Ok(o.status) THEN SubmitErrorMessage(o.body)
    ELSE IF o.body.kind = "invalid" THEN Msg(ErrJsonSyntax)
    ELSE Msg(ErrTypeError)

\* slip: only the busy tag is kept
SubmitTaggedBusyOnly(o) ==
    /\ ~o.failed /\ ~Ok(o.status) /\ o.body.kind = "object"
    /\ Get(o.body, "serverStatus") = "s:busy"

\* line 224: if (errorData.serverStatus), reached for a non-ok response
SubmitTagged(o) ==
    /\ ~o.failed /\ ~Ok(o.status) /\ o.body.kind = "object"
    /\ Truthy(Get(o.body, "serverStatus"))

\* slip: the report is not required
SubmitCompletedAnyReport(o) ==
    /\ ~SubmitThrown(o)
    /\ Get(o.body, "status") = "s:completed"

\* line 249: if (jobData.status === "completed" && jobData.report)
SubmitCompleted(o) ==
    /\ ~SubmitThrown(o)
    /\ Get(o.body, "status") = "s:completed"
    /\ Truthy(Get(o.body, "report"))

\* handleSubmit, lines 212-262: the POST request settles
SubmitResponse(o) ==
    /\ submitsInFlight > 0
    /\ submitsInFlight' = submitsInFlight - 1
    /\ LET loading == ~(SubmitThrown(o) \/ SubmitCompleted(o))
       IN /\ IF SubmitThrown(o) \/ SubmitCompleted(o)
             THEN UNCHANGED <<pollTimers, pollJobId>>
             ELSE /\ pollTimers' = pollTimers + 1
                  /\ pollJobId' = Get(o.body, "job_id")
          /\ IF mounted
             THEN /\ isLoading' = loading
                  /\ error' = IF SubmitThrown(o) THEN SubmitError(o) ELSE error
                  /\ report' = IF SubmitCompleted(o) THEN Get(o.body, "report")
                               ELSE report
                  /\ serverStatus' = IF SubmitTagged(o)
                                     THEN Get(o.body, "serverStatus")
                                     ELSE serverStatus
                  /\ jobId' = JobIdAfterEffects(loading,
                                  IF SubmitThrown(o) THEN jobId
                                  ELSE Get(o.body, "job_id"))
                  /\ currentStage' = StageAfterEffects(loading, currentStage)
                  /\ processingTime' = TimeAfterEffects(loading, processingTime)
             ELSE UNCHANGED clientState
    /\ UNCHANGED <<pollFailures, lastSubmit, mounted, topic, status, healthInFlight, statusInFlight>>

\* the one-second ticker, lines 146-169
Tick ==
    /\ mounted /\ isLoading
    /\ processingTime < MaxTime
    /\ processingTime' = processingTime + 1
    /\ currentStage' = IF processingTime > 0 /\ processingTime % StageEvery = 0
                          /\ currentStage < NumStages - 1
                       THEN currentStage + 1
                       ELSE currentStage
    /\ UNCHANGED <<pollFailures, lastSubmit, mounted, topic, isLoading, error, report, jobId,
                   serverStatus, status, healthInFlight, submitsInFlight,
                   pollTimers, pollJobId, statusInFlight>>

\* the three-second polling timer fires: lines 267-271, the status fetch
PollTick ==
    /\ pollTimers > 0
    /\ statusInFlight < MaxInFlight
    /\ statusInFlight' = statusInFlight + 1
    /\ UNCHANGED <<pollFailures, lastSubmit, mounted, topic, isLoading, error, report, currentStage,
                   processingTime, jobId, serverStatus, status, healthInFlight,
                   submitsInFlight, pollTimers, pollJobId>>

\* the status fetch resolved with a success status and a JSON object
PollParsed(o) == ~o.failed /\ Ok(o.status) /\ o.body.kind = "object"

\* slip: the status is compared with a misspelt word
PollCompletedTypo(o) ==
    /\ PollParsed(o)
    /\ Get(o.body, "status") = "s:complete"
    /\ Truthy(Get(o.body, "report"))

\* line 296: if (statusData.status === "completed" && statusData.report)
PollCompleted(o) ==
    /\ PollParsed(o)
    /\ Get(o.body, "status") = "s:completed"
    /\ Truthy(Get(o.body, "report"))

\* line 304: if (statusData.status === "failed"), reached when line 296 fails
PollFailed(o) ==
    /\ PollParsed(o)
    /\ ~PollCompleted(o)
    /\ Get(o.body, "status") = "s:failed"

\* lines 273-278: a non-success response whose body parses to an object, so
\* that setError and setIsLoading(false) are reached
PollRejected(o) == ~o.failed /\ ~Ok(o.status) /\ o.body.kind = "object"

\* slip: the catch block gives up polling as well
PollClearsIntervalOnCatch(o) ==
    o.failed \/ (~o.failed /\ ~Ok(o.status)) \/ PollCompleted(o) \/ PollFailed(o)

\* clearInterval(pollInterval) is reached: line 274 (before the body is
\* read), line 297 or line 305
PollClearsInterval(o) ==
    (~o.failed /\ ~Ok(o.status)) \/ PollCompleted(o) \/ PollFailed(o)

\* slip: the job's error text is dropped
PollErrorGeneric(o, err) ==
    IF PollRejected(o) THEN Msg(Or(Get(o.body, "detail"), MsgPollFailed))
    ELSE IF PollFailed(o) THEN Msg(MsgJobFailed)
    ELSE err

\* setError of lines 276 and 306; err is the error shown before
PollError(o, err) ==
    IF PollRejected(o) THEN Msg(Or(Get(o.body, "detail"), MsgPollFailed))
    ELSE IF PollFailed(o) THEN Msg(Or(Get(o.body, "error"), MsgJobFailed))
    ELSE err

\* startPollingJobStatus, lines 268-314: a status fetch settles
PollResponse(o) ==
    /\ statusInFlight > 0
    /\ processingTime < MaxTime
    /\ o.failed => pollFailures < MaxFailures
    /\ statusInFlight' = statusInFlight - 1
    /\ pollFailures' = IF o.failed THEN pollFailures + 1 ELSE 0
    /\ LET \* setProcessingTime((prev) => prev + 1) is reached
           counted == ~o.failed /\ Ok(o.status) /\ o.body.kind # "invalid"
           loading == isLoading
                      /\ ~(PollCompleted(o) \/ PollFailed(o) \/ PollRejected(o))
           time == IF counted THEN processingTime + 1 ELSE processingTime
           stage == IF PollParsed(o)
                    THEN StageOf(Get(o.body, "progress") # Undefined, o.progress)
                    ELSE currentStage
       IN /\ pollTimers' = IF PollClearsInterval(o) THEN 0 ELSE pollTimers
          /\ IF mounted
             THEN /\ isLoading' = loading
                  /\ error' = PollError(o, error)
                  /\ report' = IF PollCompleted(o) THEN Get(o.body, "report")
                               ELSE report
                  /\ currentStage' = StageAfterEffects(loading, stage)
                  /\ processingTime' = TimeAfterEffects(loading, time)
                  /\ jobId' = JobIdAfterEffects(loading, jobId)
                  /\ UNCHANGED serverStatus
             ELSE UNCHANGED clientState
    /\ UNCHANGED <<lastSubmit, mounted, topic, status, healthInFlight, submitsInFlight,
                   pollJobId>>

\* fetchServerStatus, lines 173-190: the mount-time /health fetch settles
ServerStatusResponse(o) ==
    /\ healthInFlight
    /\ healthInFlight' = FALSE
    /\ IF ~mounted
       THEN UNCHANGED <<serverStatus, status>>
       ELSE IF o.failed \/ o.body.kind # "object"
       THEN /\ status' = "Server is unavailable"
            /\ UNCHANGED serverStatus
       ELSE /\ serverStatus' = Or(Get(o.body, "status"), "s:OK")
            /\ UNCHANGED status
    /\ UNCHANGED <<pollFailures, lastSubmit, mounted, topic, isLoading, error, report, currentStage,
                   processingTime, jobId, submitsInFlight, pollTimers,
                   pollJobId, statusInFlight>>

\* the component is torn down: the ticker effect's cleanup clears its
\* interval (line 168); the function returned by startPollingJobStatus
\* (line 317) was dropped by handleSubmit (line 256) and is never called
Unmount ==
    /\ mounted
    /\ mounted' = FALSE
    /\ UNCHANGED <<pollFailures, lastSubmit, topic, isLoading, error, report, currentStage,
                   processingTime, jobId, serverStatus, status, healthInFlight,
                   submitsInFlight, pollTimers, pollJobId, statusInFlight>>

ClientInit ==
    /\ mounted = TRUE
    /\ topic = <<>>
    /\ isLoading = FALSE
    /\ error = NoMsg
    /\ report = JNull
    /\ currentStage = 0
    /\ processingTime = 0
    /\ jobId = JNull
    /\ serverStatus = JNull
    /\ status = "Checking..."
    /\ healthInFlight = TRUE
    /\ submitsInFlight = 0
    /\ pollTimers = 0
    /\ pollJobId = JNull
    /\ statusInFlight = 0
    /\ lastSubmit = "none"
    /\ pollFailures = 0

ClientNext ==
    \/ \E t \in Topics : SetTopic(t)
    \/ HandleSubmit
    \/ \E o \in SubmitOutcomes : SubmitResponse(o)
    \/ Tick
    \/ PollTick
    \/ \E o \in StatusOutcomes : PollResponse(o)
    \/ \E o \in ServerStatusOutcomes : ServerStatusResponse(o)
    \/ Unmount

----------------------------------------------------------------------------
(* Specifications *)

Init == ProxyInit /\ ClientInit

\* the proxy route serving requests
Next == ProxyNext /\ UNCHANGED clientVars

Spec == Init /\ [][Next]_vars

\* one instance of the client page
InitClient == ProxyInit /\ API_KEY = Undefined /\ ClientInit

NextClient == ClientNext /\ UNCHANGED proxyVars

SpecClient == InitClient /\ [][NextClient]_vars

\* the client page polling a job: the state after a submit was answered with
\* a job id (line 256), then status responses over the whole progress grid
InitStage ==
    /\ ProxyInit /\ API_KEY = Undefined
    /\ mounted = TRUE
    /\ topic = <<"a">>
    /\ isLoading = TRUE
    /\ error = NoMsg
    /\ report = JNull
    /\ currentStage = 0
    /\ processingTime = 0
    /\ jobId = "s:j1"
    /\ serverStatus = JNull
    /\ status = "Checking..."
    /\ healthInFlight = TRUE
    /\ submitsInFlight = 0
    /\ pollTimers = 1
    /\ pollJobId = "s:j1"
    /\ statusInFlight = 0
    /\ lastSubmit = "sent"
    /\ pollFailures = 0

NextStage ==
    /\ \/ Tick
       \/ PollTick
       \/ \E o \in GridOutcomes : PollResponse(o)
    /\ UNCHANGED proxyVars

SpecStage == InitStage /\ [][NextStage]_vars

----------------------------------------------------------------------------
(* Properties of the proxy route *)

\* the handler of a POST / GET request has returned
PostDone == pc = "done" /\ req.method = "POST"

GetDone == pc = "done" /\ req.method = "GET"

\* the (single) response of the finished request
Reply == replies[Len(replies)]

\* the health call resolved with a success status and a JSON object payload
HealthPayloadRead ==
    /\ Len(calls) >= 1
    /\ calls[1].url = "/health"
    /\ ~healthResponse.failed
    /\ Ok(healthResponse.status)
    /\ healthResponse.body.kind = "object"

\* the backend job call (job creation or job status) resolved with a response
BackendReturned ==
    /\ pc = "done"
    /\ Len(calls) >= 1
    /\ calls[Len(calls)].url \in {"/generate-report", "/job-status"}
    /\ ~response.failed

GenerateCalls == {i \in DOMAIN calls : calls[i].url = "/generate-report"}

\* C1: a health payload with server_status "busy" yields HTTP 429 with
\* serverStatus "busy" and currentLoad / maxCapacity equal to the payload's
\* current_load / max_capacity, whatever their values (absent included).
C1_BusyYields429 ==
    (PostDone /\ HealthPayloadRead
        /\ Get(healthResponse.body, "server_status") = "s:busy")
    => /\ Len(replies) = 1
       /\ Reply.status = 429
       /\ Reply.body.kind = "object"
       /\ Get(Reply.body, "serverStatus") = "s:busy"
       /\ Get(Reply.body, "currentLoad") = Get(healthResponse.body, "current_load")
       /\ Get(Reply.body, "maxCapacity") = Get(healthResponse.body, "max_capacity")

C1_Witness ==
    /\ PostDone /\ HealthPayloadRead
    /\ Get(healthResponse.body, "server_status") = "s:busy"
    /\ Get(healthResponse.body, "current_load") = "n:0"
    /\ Get(healthResponse.body, "max_capacity") = "n:5"
    /\ Reply.status = 429

\* C2 as stated: a health payload with is_warming_up true yields HTTP 503
\* with serverStatus "warming" for every value of server_status, "busy" included.
C2_WarmingRegardless ==
    (PostDone /\ HealthPayloadRead
        /\ Get(healthResponse.body, "is_warming_up") = JTrue)
    => /\ Reply.status = 503
       /\ Get(Reply.body, "serverStatus") = "s:warming"

\* C2 amended: a health payload with is_warming_up true and server_status
\* other than "busy" yields HTTP 503 with serverStatus "warming"; with
\* server_status "busy" the busy test comes first and the answer is 429 "busy".
C2_WarmingUnlessBusy ==
    (PostDone /\ HealthPayloadRead
        /\ Get(healthResponse.body, "is_warming_up") = JTrue)
    => IF Get(healthResponse.body, "server_status") = "s:busy"
       THEN /\ Reply.status = 429
            /\ Get(Reply.body, "serverStatus") = "s:busy"
       ELSE /\ Len(replies) = 1
            /\ Reply.status = 503
            /\ Get(Reply.body, "serverStatus") = "s:warming"

C2_Witness ==
    /\ PostDone /\ HealthPayloadRead
    /\ Get(healthResponse.body, "is_warming_up") = JTrue
    /\ Get(healthResponse.body, "server_status") = "s:ok"
    /\ Reply.status = 503
    /\ Get(Reply.body, "serverStatus") = "s:warming"

\* C3 as stated: with a valid topic, a health call that fails at network level
\* or returns a non-success status yields HTTP 503 with serverStatus
\* "unavailable", in both cases.
C3_HealthFailureUnavailable ==
    (PostDone /\ Len(calls) >= 1 /\ calls[1].url = "/health"
        /\ (healthResponse.failed \/ ~Ok(healthResponse.status)))
    => /\ Reply.status = 503
       /\ Get(Reply.body, "serverStatus") = "s:unavailable"

\* C4: a job-creation call is issued only after the health call of the same
\* request returned success with server_status not "busy" and is_warming_up
\* not true; with an invalid topic, a failed health call, busy or warming no
\* job-creation call is issued.
C4_AdmissionGate ==
    /\ \A i \in GenerateCalls :
          /\ i = 2
          /\ req.method = "POST"
          /\ ~TopicMissing(req.body)
          /\ HealthPayloadRead
          /\ Get(healthResponse.body, "server_status") # "s:busy"
          /\ Get(healthResponse.body, "is_warming_up") # JTrue
    /\ (PostDone /\ ( \/ Len(calls) = 0
                      \/ healthResponse.failed
                      \/ ~Ok(healthResponse.status)
                      \/ OptGet(healthResponse.body, "server_status") = "s:busy"
                      \/ OptGet(healthResponse.body, "is_warming_up") = JTrue ))
       => GenerateCalls = {}

C4_Witness ==
    /\ pc = "awaitGenerate"
    /\ GenerateCalls = {2}
    /\ Get(healthResponse.body, "server_status") = "s:ok"

\* C5: a request body without topic or with an empty topic is answered with
\* HTTP 400 and no outbound call; no outbound call of a POST is made before
\* the validation has accepted the topic.
C5_TopicValidation ==
    /\ (req.method = "POST" /\ req.body.kind # "invalid"
          /\ OptGet(req.body, "topic") \in {Undefined, "s:"})
       => /\ pc = "done"
          /\ Len(replies) = 1
          /\ Reply.status = 400
          /\ calls = <<>>
    /\ (req.method = "POST" /\ calls # <<>>)
       => /\ req.body.kind = "object"
          /\ Get(req.body, "topic") \notin {Undefined, "s:"}

C5_Witness ==
    /\ PostDone
    /\ OptGet(req.body, "topic") = "s:"
    /\ req.body.kind = "object"
    /\ Reply.status = 400

\* C6: a missing or empty jobId is answered with HTTP 400 and no outbound
\* call; GET never calls the health endpoint and issues at most one call.
C6_JobIdValidation ==
    req.method = "GET"
    => /\ (req.jobId \in {JNull, "s:"})
          => /\ pc = "done"
             /\ Len(replies) = 1
             /\ Reply.status = 400
             /\ calls = <<>>
       /\ Len(calls) <= 1
       /\ \A i \in DOMAIN calls : calls[i].url = "/job-status"

C6_Witness ==
    /\ GetDone
    /\ req.jobId = "s:"
    /\ Reply.status = 400

\* C7: when the job-creation or job-status call returns a success status
\* (with a JSON body) the proxy's response body equals the backend's body.
C7_PassThrough ==
    (BackendReturned /\ Ok(response.status) /\ response.body.kind # "invalid")
    => /\ Len(replies) = 1
       /\ Reply.body = response.body

C7_Witness ==
    /\ BackendReturned /\ Ok(response.status)
    /\ OptGet(response.body, "status") = "s:completed"
    /\ OptGet(response.body, "report") = "s:report"
    /\ Reply.body = response.body

\* the generic message of the handler that served the request
Fallback == IF req.method = "POST" THEN MsgStartFailed ELSE MsgStatusFailed

\* C8 as stated: when the job-creation or job-status call returns a
\* non-success status the proxy answers with that status; its detail is the
\* backend's detail when one is available and the generic message otherwise,
\* never another text.
C8_ErrorPropagation ==
    (BackendReturned /\ ~Ok(response.status))
    => /\ Reply.status = response.status
       /\ Get(Reply.body, "detail")
            = Or(OptGet(response.body, "detail"), Fallback)

\* C9: an outbound call carries X-API-Key (with the configured value) exactly
\* when an API key is configured, and without a key a request whose backend
\* calls all succeed is answered with a success.
C9_ApiKeyHeader ==
    /\ \A i \in DOMAIN calls :
          /\ (calls[i].headers.xApiKey # Undefined) <=> (API_KEY \notin {Undefined, "s:"})
          /\ (calls[i].headers.xApiKey # Undefined) => calls[i].headers.xApiKey = API_KEY
    /\ (BackendReturned /\ API_KEY \in {Undefined, "s:"}
          /\ Ok(response.status) /\ response.body.kind = "object")
       => Reply.status = 200

C9_Witness ==
    /\ BackendReturned
    /\ API_KEY = Undefined
    /\ Len(calls) = 2
    /\ calls[1].headers.xApiKey = Undefined
    /\ calls[2].headers.xApiKey = Undefined
    /\ Reply.status = 200

C9_WitnessKey ==
    /\ GetDone
    /\ API_KEY = "s:secret"
    /\ Len(calls) = 1
    /\ calls[1].headers.xApiKey = "s:secret"

----------------------------------------------------------------------------
(* Properties of the client page *)

AllWhitespace(t) == \A i \in DOMAIN t : t[i] \in Whitespace

\* C10: handleSubmit with an empty or whitespace-only topic sends no request
\* and leaves isLoading, error, report, jobId, serverStatus, currentStage and
\* processingTime (and the timers) unchanged.
C10_BlankSubmitNoOp ==
    [][(HandleSubmit /\ AllWhitespace(topic))
        => UNCHANGED <<clientState, submitsInFlight, statusInFlight, pollTimers,
                       pollJobId, topic>>]_vars

C10_Witness ==
    /\ lastSubmit = "ignored"
    /\ topic = <<"\t">>
    /\ ~isLoading
    /\ submitsInFlight = 0
    /\ serverStatus = "s:ok"

\* the client is in Polling: loading, with a live polling timer
Polling == mounted /\ isLoading /\ pollTimers > 0

\* C11 as stated: unmounting the client while it is Polling cancels the
\* polling timer, and after the unmount no further status request and no
\* other network call is issued.
C11_NoRequestAfterUnmount ==
    [][/\ (Polling /\ Unmount) => pollTimers' = 0
       /\ ~mounted => /\ statusInFlight' <= statusInFlight
                      /\ submitsInFlight' <= submitsInFlight]_vars

\* a status fetch settled in this step
PollSettles == statusInFlight' = statusInFlight - 1

\* status outcomes by the case they stand for
TransientFailures == {o \in StatusOutcomes : o.failed}

NonSuccessResponses == {o \in StatusOutcomes : ~o.failed /\ ~Ok(o.status)}

CompletedWithReport ==
    {o \in StatusOutcomes :
        /\ ~o.failed /\ Ok(o.status) /\ o.body.kind = "object"
        /\ Get(o.body, "status") = "s:completed"
        /\ Get(o.body, "report") # Undefined}

FailedJobs ==
    {o \in StatusOutcomes :
        /\ ~o.failed /\ Ok(o.status) /\ o.body.kind = "object"
        /\ Get(o.body, "status") = "s:failed"}

TerminalStatuses ==
    {o \in StatusOutcomes :
        /\ ~o.failed /\ Ok(o.status) /\ o.body.kind = "object"
        /\ Get(o.body, "status") \in {"s:completed", "s:failed"}}

\* C12: a status fetch that fails at network level while the client is
\* Polling leaves the timer running, isLoading true and error null, and the
\* timer can issue the next status request; nothing counts the failures.
C12_TransientFailureKeepsPolling ==
    [][(Polling /\ PollSettles)
        => \A o \in TransientFailures :
              PollResponse(o)
              => /\ pollTimers' = pollTimers
                 /\ isLoading'
                 /\ error = NoMsg /\ error' = NoMsg
                 /\ report' = report
                 /\ statusInFlight' < MaxInFlight]_vars

C12_Witness ==
    /\ Polling
    /\ pollFailures = MaxFailures
    /\ error = NoMsg
    /\ report = JNull
    /\ statusInFlight = 0

\* C13 as stated: a status response with a non-success HTTP code cancels the
\* polling timer, sets isLoading false and sets error to the response's
\* detail or to the fallback string.
C13_NonSuccessStatusFails ==
    [][(mounted /\ isLoading /\ PollSettles)
        => \A o \in NonSuccessResponses :
              PollResponse(o)
              => /\ pollTimers' = 0
                 /\ ~isLoading'
                 /\ error' = Msg(Or(OptGet(o.body, "detail"), MsgPollFailed))]_vars

\* C14: while the client is Polling, a status response with status
\* "completed" and a report cancels the polling timer, sets isLoading false
\* and makes report equal to the response's report.
C14_PollingCompleted ==
    [][(Polling /\ PollSettles)
        => \A o \in CompletedWithReport :
              PollResponse(o)
              => /\ pollTimers' = 0
                 /\ ~isLoading'
                 /\ report' = Get(o.body, "report")]_vars

C14_Witness ==
    /\ mounted
    /\ pollJobId = "s:j1"
    /\ report = "s:report2"
    /\ ~isLoading
    /\ pollTimers = 0
    /\ error = NoMsg

\* C15: while the client is Polling, a status response with status
\* "failed" cancels the polling timer, sets isLoading false and sets error
\* to the response's error text, or to the fallback string when the response
\* has none (absent or empty).
C15_PollingFailed ==
    [][(Polling /\ PollSettles)
        => \A o \in FailedJobs :
              PollResponse(o)
              => /\ pollTimers' = 0
                 /\ ~isLoading'
                 /\ error' = Msg(IF Get(o.body, "error") \in {Undefined, "s:"}
                                 THEN MsgJobFailed
                                 ELSE Get(o.body, "error"))]_vars

C15_Witness ==
    /\ mounted
    /\ pollJobId = "s:j1"
    /\ error = Msg("s:err")
    /\ ~isLoading
    /\ pollTimers = 0
    /\ report = JNull

C15_WitnessFallback ==
    /\ mounted
    /\ pollJobId = "s:j1"
    /\ error = Msg(MsgJobFailed)
    /\ ~isLoading
    /\ pollTimers = 0

\* C16 as stated: whenever a status response carries status "completed" or
\* "failed" the polling timer is cancelled and the client leaves Polling.
C16_TerminalStatusEndsPolling ==
    [][(Polling /\ PollSettles)
        => \A o \in TerminalStatuses :
              PollResponse(o)
              => /\ pollTimers' = 0
                 /\ ~isLoading']_vars

\* C17 as stated: after a submission the client either is still working
\* (the submit request is in flight or the polling timer is running) or has
\* ended the loading state with an error or a report on display.
C17_LoadingEndsWithDisplay ==
    (mounted /\ lastSubmit = "sent")
    => IF isLoading
       THEN submitsInFlight > 0 \/ pollTimers > 0
       ELSE error # NoMsg \/ report # JNull

\* C18: there is at most one outstanding submit request and at most one live
\* polling timer, never both, and while either exists handleSubmit cannot run.
C18_OneJobInFlight ==
    /\ submitsInFlight + pollTimers <= 1
    /\ (submitsInFlight > 0 \/ pollTimers > 0) => ~ENABLED HandleSubmit
    /\ (mounted /\ isLoading) => ~ENABLED HandleSubmit

C18_Witness ==
    /\ mounted
    /\ isLoading
    /\ pollTimers = 1
    /\ submitsInFlight = 0
    /\ statusInFlight = MaxInFlight

\* C19 as stated: once loading has ended with a report or an error the job
\* id is discarded and the user can start a fresh submission.
C19_IdleAfterTerminal ==
    (mounted /\ ~isLoading /\ (report # JNull \/ error # NoMsg))
    => /\ ~Truthy(jobId)
       /\ ENABLED HandleSubmit

\* C20 as stated: while a job is loading no step (status response or
\* one-second tick) moves currentStage to a smaller value.
C20_StageNeverDecreases ==
    [][(mounted /\ isLoading /\ isLoading') => currentStage' >= currentStage]_vars

\* the stage the mapping table gives for a progress p in hundredths
TableStage(p) ==
    CASE p <= 20 -> 0
      [] p > 20 /\ p <= 30 -> 1
      [] p > 30 /\ p <= 50 -> 2
      [] p > 50 /\ p <= 70 -> 3
      [] p > 70 /\ p <= 90 -> 4
      [] p > 90 /\ p < 100 -> 5
      [] p >= 100 -> 6

\* C21: a status response of a running job sets currentStage to the stage
\* of the table for its progress: <= 0.2 stage 0, <= 0.3 stage 1, <= 0.5
\* stage 2, <= 0.7 stage 3, <= 0.9 stage 4, < 1.0 stage 5, otherwise stage
\* 6, for every progress of the grid of hundredths.
C21_StageMapping ==
    [][(Polling /\ PollSettles)
        => \A o \in GridOutcomes :
              PollResponse(o) => currentStage' = TableStage(o.progress)]_vars

\* stage 5 was shown by a response: the ticker has not moved the stage yet
C21_Witness ==
    /\ Polling
    /\ currentStage = 5
    /\ processingTime = 1

\* the submit request settled in this step
SubmitSettles == submitsInFlight' = submitsInFlight - 1

\* the client is in Submitting: loading, with the submit request in flight
Submitting == mounted /\ isLoading /\ submitsInFlight > 0

\* submit outcomes by the case they stand for
SubmitSuccesses ==
    {o \in SubmitOutcomes : ~o.failed /\ Ok(o.status) /\ o.body.kind = "object"}

CompletedOnSubmit ==
    {o \in SubmitSuccesses :
        /\ Get(o.body, "status") = "s:completed"
        /\ Get(o.body, "report") # Undefined}

JobIdOnSubmit ==
    {o \in SubmitSuccesses \ CompletedOnSubmit : Get(o.body, "job_id") # Undefined}

SubmitFailures == {o \in SubmitOutcomes : o.failed \/ ~Ok(o.status)}

SubmitErrorResponses == {o \in SubmitOutcomes : ~o.failed /\ ~Ok(o.status)}

\* C22: a success submit response with status "completed" and a report sets
\* report to the response's report, sets isLoading false and starts no
\* polling timer; a success response that carries a job id and no completed
\* report starts one polling timer for exactly that job id.
C22_SubmitSuccess ==
    [][(Submitting /\ SubmitSettles)
        => /\ \A o \in CompletedOnSubmit :
                 SubmitResponse(o)
                 => /\ report' = Get(o.body, "report")
                    /\ ~isLoading'
                    /\ pollTimers' = 0
                    /\ statusInFlight' = 0
           /\ \A o \in JobIdOnSubmit :
                 SubmitResponse(o)
                 => /\ isLoading'
                    /\ pollTimers' = 1
                    /\ pollJobId' = Get(o.body, "job_id")
                    /\ report' = JNull]_vars

\* Completed straight from the submit response: no job was ever polled
C22_Witness ==
    /\ mounted
    /\ ~isLoading
    /\ report = "s:report"
    /\ error = NoMsg
    /\ pollJobId = JNull
    /\ pollTimers = 0

C22_WitnessPolling ==
    /\ Polling
    /\ pollJobId = "s:j1"
    /\ submitsInFlight = 0
    /\ statusInFlight = 0
    /\ processingTime = 0

\* C23: when the submit response is an error or the submit request fails,
\* isLoading becomes false, error becomes non-null, no polling timer is
\* started, and a serverStatus carried by the error body is the client's
\* serverStatus afterwards.
C23_SubmitFailure ==
    [][(Submitting /\ SubmitSettles)
        => \A o \in SubmitFailures :
              SubmitResponse(o)
              => /\ ~isLoading'
                 /\ error' # NoMsg
                 /\ pollTimers' = 0
                 /\ OptGet(o.body, "serverStatus") # Undefined
                    => serverStatus' = OptGet(o.body, "serverStatus")]_vars

C23_Witness ==
    /\ mounted
    /\ ~isLoading
    /\ serverStatus = "s:warming"
    /\ error = Msg(MsgClientWarming)
    /\ pollTimers = 0
    /\ report = JNull

\* C24 as stated: for an error submit response, when the body carries a
\* serverStatus the message shown is one of the three templates (busy with
\* currentLoad / maxCapacity, warming, unavailable); in all other cases it is
\* the body's detail, or the generic fallback string when detail is absent.
C24_SubmitMessage ==
    [][(Submitting /\ SubmitSettles)
        => \A o \in SubmitErrorResponses :
              SubmitResponse(o)
              => IF OptGet(o.body, "serverStatus") # Undefined
                 THEN error' \in {BusyMsg(Get(o.body, "currentLoad"),
                                          Get(o.body, "maxCapacity")),
                                  Msg(MsgClientWarming),
                                  Msg(MsgClientUnavailable)}
                 ELSE error' = Msg(Or(OptGet(o.body, "detail"), MsgStartFailed))]_vars

\* C25 as stated: once report or error is set for a job no later event
\* changes report or error, and report and error are never both set.
C25_TerminalStable ==
    [][/\ (mounted /\ ~isLoading /\ (report # JNull \/ error # NoMsg))
          => (report' = report /\ error' = error)
       /\ ~(report' # JNull /\ error' # NoMsg)]_vars

\* an outbound call of the current request was rejected
HealthCallFailed == healthResponse # NoOutcome /\ healthResponse.failed

BackendCallFailed == response # NoOutcome /\ response.failed

\* a body that is not JSON was read: the request's, the health payload of a
\* success response, or the backend's payload
BodyParseFailed ==
    \/ req.method = "POST" /\ req.body.kind = "invalid"
    \/ /\ healthResponse # NoOutcome /\ ~healthResponse.failed
       /\ Ok(healthResponse.status) /\ healthResponse.body.kind = "invalid"
    \/ response # NoOutcome /\ ~response.failed /\ response.body.kind = "invalid"

\* C26: each request gets exactly one response (none while the handler
\* runs, one once it has returned), no outbound call follows a failed
\* outbound call of the same request, and a rejected call or a rejected
\* body parse ends in HTTP 500 with a detail field.
C26_AnswersExactlyOnce ==
    /\ Len(replies) = IF pc = "done" THEN 1 ELSE 0
    /\ HealthCallFailed => (pc = "done" /\ Len(calls) = 1)
    /\ response # NoOutcome => (pc = "done" /\ calls[Len(calls)].url # "/health")
    /\ (pc = "done" /\ (HealthCallFailed \/ BackendCallFailed \/ BodyParseFailed))
       => /\ Reply.status = 500
          /\ Reply.body.kind = "object"
          /\ Get(Reply.body, "detail") # Undefined

\* the health call was rejected and the request was answered
C26_Witness ==
    /\ PostDone
    /\ HealthCallFailed
    /\ Len(replies) = 1
    /\ Reply.status = 500

C26_WitnessGet ==
    /\ GetDone
    /\ BackendCallFailed
    /\ Len(replies) = 1

C27_WitnessLastStage ==
    /\ Polling
    /\ currentStage = NumStages - 1
    /\ processingTime = MaxTime

====
